---- MODULE Spec2Model ----
(***************************************************************************)
(* A model of src/server.js: an Express service over two Mongoose          *)
(* collections (User, Task) with JWT bearer authentication.                *)
(*                                                                         *)
(* Every async route handler is cut at its awaits: the synchronous prefix  *)
(* of a handler (middleware included) is one action, and every awaited     *)
(* store operation together with the code that follows it up to the next   *)
(* await is one action.  Handlers of different requests interleave at      *)
(* these points, as they do on the Node event loop.                        *)
(***************************************************************************)
EXTENDS Integers, FiniteSets, Sequences, TLC

VARIABLES
    users,      \* the User collection: a set of documents
    tasks,      \* the Task collection: a set of documents
    nextOid,    \* the next ObjectId the Task collection hands out
    storeUp,    \* whether the MongoDB connection currently serves operations
    now,        \* the wall clock, in the clock unit of ExpiresIn
    issued,     \* the tokens that /login has handed to clients so far
    req,        \* per connection: the suspended handler (or Idle)
    last        \* the response sent by the last step that sent one

vars == <<users, tasks, nextOid, storeUp, now, issued, req, last>>

----------------------------------------------------------------------------
(* Bounds of the model *)

MaxInFlight == 2     \* handlers that may be suspended at the same time
MaxTasks == 2        \* Task documents ever created
MaxTime == 3         \* the clock stops here
MaxTokens == 2       \* tokens the clients collect

(* jwt.sign(..., { expiresIn: '1h' }): one hour is two clock units here. *)
ExpiresIn == 2

Conns == 1..MaxInFlight

----------------------------------------------------------------------------
(* Values of request fields.  Undefined is a field missing from the JSON   *)
(* body; the empty string is present but falsy.                            *)

Undefined == "<undefined>"
Falsy(v) == v = Undefined \/ v = ""

Usernames == {"alice", "bob"}
Passwords == {"pw1", "pw2"}
Titles == {"x", "y"}
Statuses == {"open", "done"}
DateStrings == {"2024-01-01", "2024-01-02T00:00:00.000Z", "someday"}

(* new Date(s) as Mongoose's Date cast does it: the epoch day, or        *)
(* InvalidDate when the string is no date (a CastError on validation).   *)
InvalidDate == -1
CastDate(s) ==
    CASE s = "2024-01-01" -> 19723
      [] s = "2024-01-01T00:00:00.000Z" -> 19723
      [] s = "2024-01-02" -> 19724
      [] s = "2024-01-02T00:00:00.000Z" -> 19724
      [] OTHER -> InvalidDate

(* Date.prototype.toJSON, which res.json applies to a Date field. *)
DateToJSON(d) ==
    CASE d = 19723 -> "2024-01-01T00:00:00.000Z"
      [] d = 19724 -> "2024-01-02T00:00:00.000Z"
      [] OTHER -> "null"

(* A path parameter :id is a string; <<"oid", n>> stands for the 24 hex   *)
(* digits of the n-th ObjectId, anything else is no ObjectId.             *)
CastError == 0
CastObjectId(s) == IF Len(s) = 2 /\ s[1] = "oid" THEN s[2] ELSE CastError
OidString(n) == <<"oid", n>>
IdParams == {OidString(n) : n \in 1..MaxTasks} \cup {<<"abc">>}

(* bcrypt.hash(password, 10) and bcrypt.compare(password, hash) *)
BcryptHash(password, rounds) == <<"$2a$", rounds, password>>
BcryptCompare(password, hash) == hash[1] = "$2a$" /\ hash[3] = password

----------------------------------------------------------------------------
(* Token Service: jsonwebtoken's sign and verify with process.env.JWT_SECRET *)

JwtSecret == "JWT_SECRET"

(* expiresIn: '2h' *)
JwtSignTwoHours(userId, clock) ==
    [kind |-> "jwt", userId |-> userId, iat |-> clock,
     exp |-> clock + 2 * ExpiresIn, sig |-> JwtSecret]

JwtSign(userId, clock) ==
    [kind |-> "jwt", userId |-> userId, iat |-> clock,
     exp |-> clock + ExpiresIn, sig |-> JwtSecret]

NoToken == [kind |-> "empty", userId |-> 0, iat |-> 0, exp |-> 0, sig |-> ""]
JunkToken == [kind |-> "junk", userId |-> 0, iat |-> 0, exp |-> 0, sig |-> ""]
Forged(t) == [t EXCEPT !.sig = "other-secret"]

(* jwt.verify: the error it calls back with, or "" *)
JwtVerify(token, clock) ==
    IF token.kind # "jwt" THEN "JsonWebTokenError"
    ELSE IF token.sig # JwtSecret THEN "JsonWebTokenError"
    ELSE IF clock >= token.exp THEN "TokenExpiredError"
    ELSE ""

(* The Authorization header: absent, or the words before the credential   *)
(* followed by the credential.                                            *)
NoHeader == [present |-> FALSE, scheme |-> <<>>, cred |-> NoToken]
Bearer(t) == [present |-> TRUE, scheme |-> <<"Bearer ">>, cred |-> t]
Raw(t) == [present |-> TRUE, scheme |-> <<>>, cred |-> t]
Basic(t) == [present |-> TRUE, scheme |-> <<"Basic ">>, cred |-> t]

(* String.prototype.replace(word, ''): the first occurrence goes *)
ReplaceFirst(words, word) ==
    IF \E i \in 1..Len(words) : words[i] = word
    THEN LET i == CHOOSE k \in 1..Len(words) :
                    words[k] = word /\ \A j \in 1..(k - 1) : words[j] # word
         IN SubSeq(words, 1, i - 1) \o SubSeq(words, i + 1, Len(words))
    ELSE words

(* req.header('Authorization')?.replace('Bearer ', ''): the credential,   *)
(* or a string that is no JWT when a word is left before it.              *)
ExtractToken(h) ==
    IF ~h.present THEN NoToken
    ELSE IF ReplaceFirst(h.scheme, "Bearer ") = <<>> THEN h.cred
    ELSE JunkToken

(* !token *)
TokenMissing(t) == t.kind = "empty"

(* authenticateJWT without the return in the verify callback's error branch *)
AuthenticateJWTFallsThrough(h, clock) ==
    LET token == ExtractToken(h) IN
    IF TokenMissing(token) THEN [status |-> 401, user |-> 0]
    ELSE [status |-> 0, user |-> token.userId]

(* authenticateJWT: the status it answers with (0: next() was called)     *)
(* and the req.user it attached.                                          *)
AuthenticateJWT(h, clock) ==
    LET token == ExtractToken(h) IN
    IF TokenMissing(token) THEN [status |-> 401, user |-> 0]
    ELSE IF JwtVerify(token, clock) # "" THEN [status |-> 403, user |-> 0]
    ELSE [status |-> 0, user |-> token.userId]

AuthError(status) ==
    IF status = 401 THEN "Authentication required" ELSE "Invalid or expired token"

Headers ==
    {NoHeader, Bearer(NoToken), Bearer(JunkToken)}
        \cup {Bearer(t) : t \in issued} \cup {Raw(t) : t \in issued}
        \cup {Bearer(Forged(t)) : t \in issued} \cup {Basic(t) : t \in issued}

----------------------------------------------------------------------------
(* Responses.  payload is the token, the task or the task list of a 2xx    *)
(* body; err is what the handler passed to console.error.  A response to  *)
(* an account route is recorded with the username it answers (about),     *)
(* which is no part of what the client receives (Sent).                   *)

None == <<>>
Response(route, status, msg, payload, err) ==
    [route |-> route, status |-> status, msg |-> msg, payload |-> payload,
     err |-> err, about |-> ""]
About(r, username) == [r EXCEPT !.about = username]
Sent(r) == [status |-> r.status, msg |-> r.msg, payload |-> r.payload]

Idle == [pc |-> "idle"]
IsIdle(c) == req[c].pc = "idle"

Respond(r) == last' = r
Suspend(c, frame) == req' = [req EXCEPT ![c] = frame]
Finish(c) == req' = [req EXCEPT ![c] = Idle]

----------------------------------------------------------------------------
(* Credential Store: the User model *)

UserByUsername(username) == {u \in users : u.username = username}
NewUserId == Cardinality(users) + 1

(* POST /register, up to  await User.findOne({ username })  *)
Register(c, username, password) ==
    /\ IsIdle(c)
    /\ IF Falsy(username) \/ Falsy(password)
       THEN /\ Respond(About(Response("register", 400,
                    "Please provide both username and password", None, ""), username))
            /\ UNCHANGED req
       ELSE /\ Suspend(c, [pc |-> "register_findOne", username |-> username,
                           password |-> password])
            /\ UNCHANGED last
    /\ UNCHANGED <<users, tasks, nextOid, storeUp, now, issued>>

(* User.findOne resolves; then  await bcrypt.hash(password, 10)  *)
RegisterFindOne(c) ==
    /\ req[c].pc = "register_findOne"
    /\ IF ~storeUp
       THEN /\ Respond(About(Response("register", 500,
                    "An error occurred during registration", None, "MongoError"),
                    req[c].username))
            /\ Finish(c)
       ELSE IF UserByUsername(req[c].username) # {}
       THEN /\ Respond(About(Response("register", 400, "Username already exists",
                                   None, ""), req[c].username))
            /\ Finish(c)
       ELSE /\ Suspend(c, [pc |-> "register_save", username |-> req[c].username,
                           hashedPassword |-> BcryptHash(req[c].password, 10)])
            /\ UNCHANGED last
    /\ UNCHANGED <<users, tasks, nextOid, storeUp, now, issued>>

(* await newUser.save(): an insert, which the unique index on username    *)
(* (schema option unique: true) refuses with E11000 for a duplicate.      *)
RegisterSave(c) ==
    /\ req[c].pc = "register_save"
    /\ IF ~storeUp
       THEN /\ Respond(About(Response("register", 500,
                    "An error occurred during registration", None, "MongoError"),
                    req[c].username))
            /\ UNCHANGED users
       ELSE IF UserByUsername(req[c].username) # {}
       THEN /\ Respond(About(Response("register", 500,
                    "An error occurred during registration", None, "E11000"),
                    req[c].username))
            /\ UNCHANGED users
       ELSE /\ users' = users \cup {[id |-> NewUserId, username |-> req[c].username,
                                     password |-> req[c].hashedPassword]}
            /\ Respond(About(Response("register", 201, "Registration successful!",
                                   None, ""), req[c].username))
    /\ Finish(c)
    /\ UNCHANGED <<tasks, nextOid, storeUp, now, issued>>

(* The two rejections of /login (lines 94 and 99) *)
LoginUserNotFound(username) ==
    About(Response("login", 404, "User not found", None, ""), username)

LoginUnknownUser(username) ==
    About(Response("login", 400, "Invalid username or password", None, ""), username)

LoginWrongPassword(username) ==
    About(Response("login", 400, "Invalid username or password", None, ""), username)

(* POST /login, up to  await User.findOne({ username })  *)
Login(c, username, password) ==
    /\ IsIdle(c)
    /\ IF Falsy(username) \/ Falsy(password)
       THEN /\ Respond(About(Response("login", 400,
                    "Please provide both username and password", None, ""), username))
            /\ UNCHANGED req
       ELSE /\ Suspend(c, [pc |-> "login_findOne", username |-> username,
                           password |-> password])
            /\ UNCHANGED last
    /\ UNCHANGED <<users, tasks, nextOid, storeUp, now, issued>>

(* User.findOne resolves; then  await bcrypt.compare(password, user.password) *)
LoginFindOne(c) ==
    /\ req[c].pc = "login_findOne"
    /\ IF ~storeUp
       THEN /\ Respond(About(Response("login", 500,
                    "An error occurred during login", None, "MongoError"),
                    req[c].username))
            /\ Finish(c)
       ELSE IF UserByUsername(req[c].username) = {}
       THEN /\ Respond(LoginUnknownUser(req[c].username))
            /\ Finish(c)
       ELSE /\ \E user \in UserByUsername(req[c].username) :
                 Suspend(c, [pc |-> "login_compare", account |-> user,
                             password |-> req[c].password])
            /\ UNCHANGED last
    /\ UNCHANGED <<users, tasks, nextOid, storeUp, now, issued>>

(* bcrypt.compare resolves; jwt.sign; res.json({ token }) *)
LoginCompare(c) ==
    /\ req[c].pc = "login_compare"
    /\ IF ~BcryptCompare(req[c].password, req[c].account.password)
       THEN /\ Respond(LoginWrongPassword(req[c].account.username))
            /\ UNCHANGED issued
       ELSE LET token == JwtSign(req[c].account.id, now) IN
            /\ token \in issued \/ Cardinality(issued) < MaxTokens
            /\ Respond(About(Response("login", 200, "", token, ""),
                             req[c].account.username))
            /\ issued' = issued \cup {token}
    /\ Finish(c)
    /\ UNCHANGED <<users, tasks, nextOid, storeUp, now>>

----------------------------------------------------------------------------
(* Task Store: the Task model *)

(* req.body of POST /tasks and PUT /tasks/:id *)
Body(title, status, date) ==
    [title |-> title, status |-> status, completionDate |-> date]

TaskIds(store) == {t._id : t \in store}

(* Task.find({}) *)
TaskFindAll(store, userId) == store

(* Task.find({ userId }) *)
TaskFind(store, userId) == {t \in store : t.userId = userId}

(* Task.findOne({ _id: id }) *)
TaskFindById(store, oid, userId) == {t \in store : t._id = oid}

(* Task.findOne({ _id: id, userId }), id already cast *)
TaskFindOne(store, oid, userId) == {t \in store : t._id = oid /\ t.userId = userId}

(* Task.deleteOne({ _id: id }) *)
TaskDeleteOne(store, oid) == {t \in store : t._id # oid}

(* The paths that assigning title, status and completionDate to a loaded  *)
(* document marks modified: Mongoose marks a path only when the cast      *)
(* value differs from the one loaded.                                     *)
ModifiedPaths(doc, body) ==
    (IF doc.title # body.title THEN {"title"} ELSE {})
        \cup (IF doc.status # body.status THEN {"status"} ELSE {})
        \cup (IF doc.completionDate # CastDate(body.completionDate)
              THEN {"completionDate"} ELSE {})

(* the assignments without  task.status = status  *)
AssignNoStatus(doc, body) ==
    [doc EXCEPT !.title = body.title,
                !.completionDate = CastDate(body.completionDate)]

(* task.title = title; task.status = status; task.completionDate = ...    *)
Assign(doc, body) ==
    [doc EXCEPT !.title = body.title, !.status = body.status,
                !.completionDate = CastDate(body.completionDate)]

(* doc.save() of a loaded document: updateOne({ _id }, { $set: delta })   *)
(* with the modified paths only; no upsert.                               *)
Merge(stored, doc, modified) ==
    [stored EXCEPT
        !.title = IF "title" \in modified THEN doc.title ELSE @,
        !.status = IF "status" \in modified THEN doc.status ELSE @,
        !.completionDate =
            IF "completionDate" \in modified THEN doc.completionDate ELSE @]

(* the same update sent with { upsert: true } *)
SaveLoadedUpsert(store, doc, modified) ==
    IF doc._id \in {t._id : t \in store}
    THEN {IF t._id = doc._id THEN Merge(t, doc, modified) ELSE t : t \in store}
    ELSE store \cup {doc}

SaveLoaded(store, doc, modified) ==
    {IF t._id = doc._id THEN Merge(t, doc, modified) ELSE t : t \in store}

(* What save() of a loaded document with no modified path may answer:     *)
(* Mongoose versions differ in whether they then look the document up.    *)
EmptySaveOutcomes(store, doc, up) ==
    {"ok"} \cup (IF ~up THEN {"MongoError"}
                 ELSE IF doc._id \notin TaskIds(store) THEN {"DocumentNotFoundError"}
                 ELSE {})

(* res.json of a task document *)
TaskJSON(t) ==
    [_id |-> OidString(t._id), title |-> t.title, status |-> t.status,
     completionDate |-> DateToJSON(t.completionDate), userId |-> t.userId]

(* POST /tasks: authenticateJWT, the presence check, new Task(...), up to *)
(* await newTask.save().  The document's _id is made by the constructor.  *)
PostTasks(c, h, title, status, date) ==
    LET auth == AuthenticateJWT(h, now) IN
    /\ IsIdle(c)
    /\ IF auth.status # 0
       THEN /\ Respond(Response("post", auth.status, AuthError(auth.status), None, ""))
            /\ UNCHANGED <<req, nextOid>>
       ELSE IF Falsy(title) \/ Falsy(status) \/ Falsy(date)
       THEN /\ Respond(Response("post", 400, "Please provide all fields", None, ""))
            /\ UNCHANGED <<req, nextOid>>
       ELSE /\ nextOid <= MaxTasks
            /\ Suspend(c, [pc |-> "post_save", user |-> auth.user,
                           body |-> Body(title, status, date),
                           doc |-> [_id |-> nextOid, title |-> title, status |-> status,
                                    completionDate |-> CastDate(date),
                                    userId |-> auth.user]])
            /\ nextOid' = nextOid + 1
            /\ UNCHANGED last
    /\ UNCHANGED <<users, tasks, storeUp, now, issued>>

(* newTask.save(): validation, then the insert *)
PostSave(c) ==
    /\ req[c].pc = "post_save"
    /\ IF req[c].doc.completionDate = InvalidDate
       THEN /\ Respond(Response("post", 500,
                    "An error occurred while adding the task", None, "ValidationError"))
            /\ UNCHANGED tasks
       ELSE IF ~storeUp
       THEN /\ Respond(Response("post", 500,
                    "An error occurred while adding the task", None, "MongoError"))
            /\ UNCHANGED tasks
       ELSE /\ tasks' = tasks \cup {req[c].doc}
            /\ Respond(Response("post", 201, "Task added successfully",
                                TaskJSON(req[c].doc), ""))
    /\ Finish(c)
    /\ UNCHANGED <<users, nextOid, storeUp, now, issued>>

(* GET /tasks: authenticateJWT, up to  await Task.find(...)  *)
GetTasks(c, h) ==
    LET auth == AuthenticateJWT(h, now) IN
    /\ IsIdle(c)
    /\ IF auth.status # 0
       THEN /\ Respond(Response("get", auth.status, AuthError(auth.status), None, ""))
            /\ UNCHANGED req
       ELSE /\ Suspend(c, [pc |-> "get_find", user |-> auth.user])
            /\ UNCHANGED last
    /\ UNCHANGED <<users, tasks, nextOid, storeUp, now, issued>>

GetFind(c) ==
    /\ req[c].pc = "get_find"
    /\ IF ~storeUp
       THEN Respond(Response("get", 500, "Failed to fetch tasks", None, "MongoError"))
       ELSE Respond(Response("get", 200, "",
                             {TaskJSON(t) : t \in TaskFind(tasks, req[c].user)}, ""))
    /\ Finish(c)
    /\ UNCHANGED <<users, tasks, nextOid, storeUp, now, issued>>

(* DELETE /tasks/:id: authenticateJWT, up to  await Task.findOne(...)  *)
DeleteTask(c, h, id) ==
    LET auth == AuthenticateJWT(h, now) IN
    /\ IsIdle(c)
    /\ IF auth.status # 0
       THEN /\ Respond(Response("delete", auth.status, AuthError(auth.status), None, ""))
            /\ UNCHANGED req
       ELSE /\ Suspend(c, [pc |-> "delete_findOne", user |-> auth.user, id |-> id])
            /\ UNCHANGED last
    /\ UNCHANGED <<users, tasks, nextOid, storeUp, now, issued>>

(* Task.findOne casts id to an ObjectId and throws a CastError if it is none *)
DeleteFindOne(c) ==
    /\ req[c].pc = "delete_findOne"
    /\ IF CastObjectId(req[c].id) = CastError
       THEN /\ Respond(Response("delete", 500,
                    "An error occurred while deleting the task", None, "CastError"))
            /\ Finish(c)
       ELSE IF ~storeUp
       THEN /\ Respond(Response("delete", 500,
                    "An error occurred while deleting the task", None, "MongoError"))
            /\ Finish(c)
       ELSE IF TaskFindOne(tasks, CastObjectId(req[c].id), req[c].user) = {}
       THEN /\ Respond(Response("delete", 404,
                    "Task not found or not authorized to delete it", None, ""))
            /\ Finish(c)
       ELSE /\ Suspend(c, [pc |-> "delete_deleteOne", user |-> req[c].user,
                           id |-> req[c].id])
            /\ UNCHANGED last
    /\ UNCHANGED <<users, tasks, nextOid, storeUp, now, issued>>

DeleteDeleteOne(c) ==
    /\ req[c].pc = "delete_deleteOne"
    /\ IF ~storeUp
       THEN /\ Respond(Response("delete", 500,
                    "An error occurred while deleting the task", None, "MongoError"))
            /\ UNCHANGED tasks
       ELSE /\ tasks' = TaskDeleteOne(tasks, CastObjectId(req[c].id))
            /\ Respond(Response("delete", 200, "Task deleted successfully", None, ""))
    /\ Finish(c)
    /\ UNCHANGED <<users, nextOid, storeUp, now, issued>>

(* PUT /tasks/:id: authenticateJWT, the presence check, up to             *)
(* await Task.findOne(...)                                                *)
PutTask(c, h, id, title, status, date) ==
    LET auth == AuthenticateJWT(h, now) IN
    /\ IsIdle(c)
    /\ IF auth.status # 0
       THEN /\ Respond(Response("put", auth.status, AuthError(auth.status), None, ""))
            /\ UNCHANGED req
       ELSE IF Falsy(title) \/ Falsy(status) \/ Falsy(date)
       THEN /\ Respond(Response("put", 400, "Please provide all fields", None, ""))
            /\ UNCHANGED req
       ELSE /\ Suspend(c, [pc |-> "put_findOne", user |-> auth.user, id |-> id,
                           body |-> Body(title, status, date)])
            /\ UNCHANGED last
    /\ UNCHANGED <<users, tasks, nextOid, storeUp, now, issued>>

(* Task.findOne resolves; the three assignments; up to  await task.save() *)
PutFindOne(c) ==
    /\ req[c].pc = "put_findOne"
    /\ IF CastObjectId(req[c].id) = CastError
       THEN /\ Respond(Response("put", 500,
                    "An error occurred while updating the task", None, "CastError"))
            /\ Finish(c)
       ELSE IF ~storeUp
       THEN /\ Respond(Response("put", 500,
                    "An error occurred while updating the task", None, "MongoError"))
            /\ Finish(c)
       ELSE IF TaskFindOne(tasks, CastObjectId(req[c].id), req[c].user) = {}
       THEN /\ Respond(Response("put", 404,
                    "Task not found or not authorized to update it", None, ""))
            /\ Finish(c)
       ELSE /\ \E task \in TaskFindOne(tasks, CastObjectId(req[c].id), req[c].user) :
                 Suspend(c, [pc |-> "put_save", user |-> req[c].user, id |-> req[c].id,
                             body |-> req[c].body,
                             doc |-> Assign(task, req[c].body),
                             modified |-> ModifiedPaths(task, req[c].body)])
            /\ UNCHANGED last
    /\ UNCHANGED <<users, tasks, nextOid, storeUp, now, issued>>

(* task.save() resolves or rejects; res.status(200).json({ message, task }) *)
PutSave(c) ==
    LET doc == req[c].doc
        failed(err) == /\ Respond(Response("put", 500,
                              "An error occurred while updating the task", None, err))
                       /\ UNCHANGED tasks
        updated == Respond(Response("put", 200, "Task updated successfully",
                                    TaskJSON(doc), ""))
    IN
    /\ req[c].pc = "put_save"
    /\ IF doc.completionDate = InvalidDate THEN failed("ValidationError")
       ELSE IF req[c].modified = {}
       THEN \E outcome \in EmptySaveOutcomes(tasks, doc, storeUp) :
                IF outcome = "ok" THEN updated /\ UNCHANGED tasks ELSE failed(outcome)
       ELSE IF ~storeUp THEN failed("MongoError")
       ELSE /\ tasks' = SaveLoaded(tasks, doc, req[c].modified)
            /\ IF doc._id \in TaskIds(tasks) THEN updated
               ELSE Respond(Response("put", 500,
                        "An error occurred while updating the task", None,
                        "DocumentNotFoundError"))
    /\ Finish(c)
    /\ UNCHANGED <<users, nextOid, storeUp, now, issued>>

----------------------------------------------------------------------------
(* The environment: the clock and the database connection *)

Tick ==
    /\ now < MaxTime
    /\ now' = now + 1
    /\ UNCHANGED <<users, tasks, nextOid, storeUp, issued, req, last>>

Disconnect ==
    /\ storeUp
    /\ storeUp' = FALSE
    /\ UNCHANGED <<users, tasks, nextOid, now, issued, req, last>>

Reconnect ==
    /\ ~storeUp
    /\ storeUp' = TRUE
    /\ UNCHANGED <<users, tasks, nextOid, now, issued, req, last>>

----------------------------------------------------------------------------

Init ==
    /\ users = {}
    /\ tasks = {}
    /\ nextOid = 1
    /\ storeUp = TRUE
    /\ now = 0
    /\ issued = {}
    /\ req = [c \in Conns |-> Idle]
    /\ last = Response("", 0, "", None, "")

----------------------------------------------------------------------------
(* The account routes alone, under concurrency and connection loss.  The   *)
(* clock stands still: only the tokens' contents depend on it.             *)

NextAccounts ==
    \/ \E c \in Conns, u \in Usernames \cup {Undefined, ""},
          p \in {"pw1", Undefined} : Register(c, u, p)
    \/ \E c \in Conns : RegisterFindOne(c)
    \/ \E c \in Conns : RegisterSave(c)
    \/ \E c \in Conns, u \in Usernames \cup {Undefined, ""},
          p \in Passwords \cup {Undefined} : Login(c, u, p)
    \/ \E c \in Conns : LoginFindOne(c)
    \/ \E c \in Conns : LoginCompare(c)
    \/ Disconnect
    \/ Reconnect

SpecAccounts == Init /\ [][NextAccounts]_vars

----------------------------------------------------------------------------
(* Claims about the account routes, under SpecAccounts *)

UniqueUsernames(store) ==
    \A u, v \in store : u.username = v.username => u = v

(* C4: among the registrations of one username (both fields present) the  *)
(* first to complete gets 201 and every other one gets 400, and the store *)
(* never holds two users of one username -- also when two of them are in  *)
(* flight together.  Stated on the step that completes a registration     *)
(* while the store serves it.                                             *)
C4_FirstRegistrationWins ==
    [][\A c \in Conns :
          (/\ req[c].pc \in {"register_findOne", "register_save"}
           /\ req'[c] = Idle
           /\ storeUp)
          => /\ IF UserByUsername(req[c].username) = {}
                THEN last'.status = 201
                ELSE last'.status = 400 /\ last'.msg = "Username already exists"
             /\ UniqueUsernames(users')]_vars

----------------------------------------------------------------------------
(* The authentication boundary: one client connection, the clock running, *)
(* every protected route called with every kind of Authorization header.  *)

AuthTitles == {"x", Undefined}
AuthStatuses == {"open", ""}
AuthIds == {OidString(1), <<"abc">>}

NextAuth ==
    \/ Register(1, "alice", "pw1")
    \/ RegisterFindOne(1)
    \/ RegisterSave(1)
    \/ Login(1, "alice", "pw1")
    \/ LoginFindOne(1)
    \/ LoginCompare(1)
    \/ Tick
    \/ \E h \in Headers, title \in AuthTitles :
            PostTasks(1, h, title, "open", "2024-01-01")
    \/ PostSave(1)
    \/ \E h \in Headers : GetTasks(1, h)
    \/ GetFind(1)
    \/ \E h \in Headers, id \in AuthIds : DeleteTask(1, h, id)
    \/ DeleteFindOne(1)
    \/ DeleteDeleteOne(1)
    \/ \E h \in Headers, id \in AuthIds, status \in AuthStatuses :
            PutTask(1, h, id, "x", status, "2024-01-01")
    \/ PutFindOne(1)
    \/ PutSave(1)

SpecAuth == Init /\ [][NextAuth]_vars


(* Claims about the authentication boundary, under SpecAuth *)

AuthConns == {1}
TaskRoutes == {"post", "get", "put", "delete"}
TaskFrames == {"post_save", "get_find", "delete_findOne", "delete_deleteOne",
               "put_findOne", "put_save"}

(* A request for one of the four task routes arrives on connection c     *)
(* with header h, in a step that is no stuttering step.  The route shows  *)
(* in the response or in the handler left suspended.                      *)
Routed(c, route, frame) == last'.route = route \/ req'[c].pc = frame

ProtectedArrival(c, h) ==
    /\ IsIdle(c)
    /\ req'[c] # Idle \/ last' # last
    /\ \/ /\ Routed(c, "post", "post_save")
          /\ \E title \in AuthTitles : PostTasks(c, h, title, "open", "2024-01-01")
       \/ /\ Routed(c, "get", "get_find")
          /\ GetTasks(c, h)
       \/ /\ Routed(c, "delete", "delete_findOne")
          /\ \E id \in AuthIds : DeleteTask(c, h, id)
       \/ /\ Routed(c, "put", "put_findOne")
          /\ \E id \in AuthIds, status \in AuthStatuses :
                PutTask(c, h, id, "x", status, "2024-01-01")

(* The middleware answered and no handler was started: nothing is left    *)
(* suspended that could read the store, and the store is as it was.       *)
Turned(status) ==
    /\ last'.status = status
    /\ last'.route \in TaskRoutes
    /\ UNCHANGED <<req, tasks, nextOid, users>>

(* The handler was entered with req.user.userId = userId: it is suspended *)
(* at its store operation, or has answered its own presence check.        *)
Entered(c, userId) ==
    \/ req'[c].pc \in TaskFrames /\ req'[c].user = userId
    \/ last'.status = 400 /\ last'.route \in {"post", "put"} /\ UNCHANGED req

(* C3: on each of the four task routes a request without an Authorization *)
(* header (or with an empty credential) gets 401, one whose token is      *)
(* malformed, wrongly signed or expired gets 403, and in both cases no    *)
(* handler runs and the store is untouched; a handler runs only with the  *)
(* userId of a verified token attached.  /register and /login never       *)
(* answer 401 or 403.                                                     *)
C3_Gate ==
    /\ [][\A c \in AuthConns, h \in Headers :
            ProtectedArrival(c, h) =>
                IF ~h.present \/ h.cred.kind = "empty" THEN Turned(401)
                ELSE IF \/ h.scheme \notin {<<>>, <<"Bearer ">>}
                        \/ h.cred.kind # "jwt"
                        \/ h.cred.sig # JwtSecret
                        \/ now >= h.cred.exp THEN Turned(403)
                ELSE Entered(c, h.cred.userId)]_vars
    /\ [][\A c \in AuthConns :
            req'[c].pc \in TaskFrames => \E t \in issued' : t.userId = req'[c].user]_vars
    /\ [][last'.route \in {"register", "login"} => last'.status \notin {401, 403}]_vars

(* An issued token has expired and a protected route has just refused a   *)
(* request with 403; the store holds a task an accepted request created.  *)
C3_Witness ==
    /\ last.route \in TaskRoutes
    /\ last.status = 403
    /\ \E t \in issued : now >= t.exp
    /\ tasks # {}

(* C5: a token returned by a login at time t is accepted on every         *)
(* protected request made before t + 1 hour and rejected with 403 from    *)
(* then on, whatever the stores hold.                                     *)
C5_TokenLifetime ==
    /\ [][\A c \in AuthConns :
            (req[c].pc = "login_compare" /\ req'[c] = Idle /\ last'.status = 200)
            => /\ last'.payload \in issued'
               /\ last'.payload.iat = now
               /\ last'.payload.userId = req[c].account.id]_vars
    /\ [][\A c \in AuthConns, t \in issued :
            ProtectedArrival(c, Bearer(t)) =>
                IF now < t.iat + ExpiresIn
                THEN Entered(c, t.userId)
                ELSE Turned(403)]_vars

(* The clock has reached the expiry of a token issued after time 0, and   *)
(* the request that carried it has just been refused.                     *)
C5_Witness ==
    /\ last.route \in TaskRoutes
    /\ last.status = 403
    /\ \E t \in issued : t.iat > 0 /\ now = t.exp

----------------------------------------------------------------------------
(* The task routes.  They start where alice and bob have registered and   *)
(* logged in (a state SpecAccounts reaches) and hold their tokens.  Each  *)
(* of the two clients has a connection of its own, so that requests of    *)
(* the two users interleave.                                              *)

Clients == {1, 2}
Alice == [id |-> 1, username |-> "alice", password |-> BcryptHash("pw1", 10)]
Bob == [id |-> 2, username |-> "bob", password |-> BcryptHash("pw1", 10)]

InitLoggedIn ==
    /\ users = {Alice, Bob}
    /\ tasks = {}
    /\ nextOid = 1
    /\ storeUp = TRUE
    /\ now = 0
    /\ issued = {JwtSign(Alice.id, 0), JwtSign(Bob.id, 0)}
    /\ req = [c \in Conns \cup Clients |-> Idle]
    /\ last = About(Response("login", 200, "", JwtSign(Bob.id, 0), ""), "bob")

TokenOf(user) == JwtSign(user.id, 0)

NextTasks ==
    \/ \E u \in {Alice, Bob}, title \in Titles :
            PostTasks(u.id, Bearer(TokenOf(u)), title, "open", "2024-01-01")
    \/ \E c \in Clients : PostSave(c)
    \/ \E u \in {Alice, Bob} : GetTasks(u.id, Bearer(TokenOf(u)))
    \/ \E c \in Clients : GetFind(c)
    \/ \E u \in {Alice, Bob}, id \in IdParams : DeleteTask(u.id, Bearer(TokenOf(u)), id)
    \/ \E c \in Clients : DeleteFindOne(c)
    \/ \E c \in Clients : DeleteDeleteOne(c)
    \/ \E u \in {Alice, Bob}, id \in IdParams, title \in Titles :
            PutTask(u.id, Bearer(TokenOf(u)), id, title, "open", "2024-01-01")
    \/ \E c \in Clients : PutFindOne(c)
    \/ \E c \in Clients : PutSave(c)
    \/ Disconnect
    \/ Reconnect

SpecTasks == InitLoggedIn /\ [][NextTasks]_vars

(* Claims about the task routes, under SpecTasks *)

(* The handler suspended on connection c at pc finishes in this step. *)
Completes(c, pc) == req[c].pc = pc /\ req'[c] = Idle

(* C1: a GET /tasks with a valid token of user B answers exactly the      *)
(* stored tasks whose owner is B, and a task's owner is the user whose    *)
(* token created it.                                                      *)
C1_ListsExactlyOwnTasks ==
    [][/\ \A c \in Clients :
            (Completes(c, "get_find") /\ storeUp)
            => /\ last'.route = "get" /\ last'.status = 200
               /\ last'.payload =
                    {TaskJSON(t) : t \in {x \in tasks : x.userId = req[c].user}}
       /\ \A c \in Clients :
            (Completes(c, "post_save") /\ last'.status = 201)
            => \E t \in tasks' :
                    /\ tasks' = tasks \cup {t}
                    /\ t.userId = req[c].user]_vars

(* bob has just listed his tasks; the store also holds a task of alice's, *)
(* which the list does not show.                                          *)
C1_Witness ==
    /\ last.route = "get" /\ last.status = 200
    /\ last.payload # {}
    /\ \A j \in last.payload : j.userId = Bob.id
    /\ \E t \in tasks : t.userId = Alice.id

(* C2: a PUT (all fields present) or DELETE with a valid token of B on an *)
(* id that is absent from the store or belongs to another user answers    *)
(* 404 and leaves the task store as it was.                               *)
C2_ForeignOrAbsentIs404 ==
    [][\A c \in Clients :
          (/\ req[c].pc \in {"put_findOne", "delete_findOne"}
           /\ req'[c] # req[c]
           /\ storeUp
           /\ ~ \E t \in tasks : OidString(t._id) = req[c].id /\ t.userId = req[c].user)
          => /\ req'[c] = Idle
             /\ last'.status = 404
             /\ tasks' = tasks]_vars

(* C9: every stored task has one owner, the user of the token that        *)
(* created it; no step changes a task's owner or id, and a task is        *)
(* changed or removed only by a request authenticated as its owner.       *)
C9_OwnershipIsFixed ==
    [][/\ \A t \in tasks' \ tasks :
            \/ /\ t._id \notin TaskIds(tasks)
               /\ \E c \in Clients : /\ Completes(c, "post_save")
                                   /\ t = req[c].doc
                                   /\ t.userId = req[c].user
            \/ \E old \in tasks, c \in Clients :
                    /\ old._id = t._id /\ old.userId = t.userId
                    /\ Completes(c, "put_save")
                    /\ req[c].user = old.userId
                    /\ req[c].id = OidString(old._id)
       /\ \A t \in tasks :
            t._id \notin TaskIds(tasks')
            => \E c \in Clients : /\ Completes(c, "delete_deleteOne")
                                /\ req[c].user = t.userId
                                /\ req[c].id = OidString(t._id)
       /\ \A t, u \in tasks' : t._id = u._id => t = u
       /\ \A t \in tasks' : \E u \in users' : u.id = t.userId
       /\ \A c \in Clients :
            (req'[c].pc = "post_save" /\ req[c] = Idle)
            => /\ req'[c].doc.userId = req'[c].user
               /\ \E t \in issued : t.userId = req'[c].user]_vars

(* alice's task has been changed by a PUT while bob's request for the     *)
(* same task has just been answered 404.                                  *)
C9_Witness ==
    /\ last.route \in {"put", "delete"} /\ last.status = 404
    /\ \E t \in tasks : t.userId = Alice.id /\ t.title = "y" /\ t._id = 1
    /\ \E t \in tasks : t.userId = Bob.id

----------------------------------------------------------------------------
(* Races on one task: alice alone, on every connection, creates tasks and *)
(* updates and deletes task 1, while the database connection stays up.    *)

AliceHeader == Bearer(JwtSign(Alice.id, 0))

NextRace ==
    \/ \E c \in Conns : PostTasks(c, AliceHeader, "x", "open", "2024-01-01")
    \/ \E c \in Conns : PostSave(c)
    \/ \E c \in Conns : GetTasks(c, AliceHeader)
    \/ \E c \in Conns : GetFind(c)
    \/ \E c \in Conns : DeleteTask(c, AliceHeader, OidString(1))
    \/ \E c \in Conns : DeleteFindOne(c)
    \/ \E c \in Conns : DeleteDeleteOne(c)
    \/ \E c \in Conns, title \in Titles, status \in Statuses :
            PutTask(c, AliceHeader, OidString(1), title, status, "2024-01-01")
    \/ \E c \in Conns : PutFindOne(c)
    \/ \E c \in Conns : PutSave(c)

SpecRace == InitLoggedIn /\ [][NextRace]_vars

(* The dates that name one instant *)
Instants ==
    {{"2024-01-01", "2024-01-01T00:00:00.000Z"},
     {"2024-01-02", "2024-01-02T00:00:00.000Z"}}
SameInstant(a, b) == \E I \in Instants : a \in I /\ b \in I

(* The JSON of a task carries the fields of a request body. *)
Carries(json, body) ==
    /\ json.title = body.title
    /\ json.status = body.status
    /\ SameInstant(json.completionDate, body.completionDate)

(* C8: after a PUT has answered 200 the stored task carries the whole     *)
(* body of that PUT, also when another PUT on the task read it before     *)
(* this one saved: the last to save wins with all three fields.  Stated   *)
(* for the saves that wrote to the store.                                 *)
C8_LastSaveWinsWhole ==
    [][\A c \in Conns :
          (Completes(c, "put_save") /\ req[c].modified # {} /\ last'.status = 200)
          => \A t \in tasks' :
                OidString(t._id) = req[c].id => Carries(TaskJSON(t), req[c].body)]_vars

(* C10: once a DELETE has answered 200 the task is never in the store     *)
(* again and no GET lists it; a PUT that found the task before the        *)
(* delete and saves after it does not bring it back.                      *)
C10_DeletedStaysDeleted ==
    [][/\ \A c \in Conns :
            (Completes(c, "delete_deleteOne") /\ last'.status = 200)
            => CastObjectId(req[c].id) \notin TaskIds(tasks')
       /\ \A n \in 1..(nextOid - 1) :
            (/\ n \notin TaskIds(tasks)
             /\ ~ \E c \in Conns : req[c].pc = "post_save" /\ req[c].doc._id = n)
            => n \notin TaskIds(tasks')
       /\ \A c \in Conns :
            (Completes(c, "get_find") /\ last'.status = 200)
            => \A j \in last'.payload : \E t \in tasks : OidString(t._id) = j._id]_vars

(* Task 1 is deleted, and the PUT that had found it before has just       *)
(* failed to save it.                                                     *)
C10_Witness ==
    /\ nextOid > 1
    /\ 1 \notin TaskIds(tasks)
    /\ last.route = "put"
    /\ last.err = "DocumentNotFoundError"

----------------------------------------------------------------------------
(* The round trip of one client: alice alone on one connection, with      *)
(* every value of every field.                                            *)

NextRoundTrip ==
    \/ \E title \in Titles \cup {Undefined}, status \in Statuses, date \in DateStrings :
            PostTasks(1, AliceHeader, title, status, date)
    \/ PostSave(1)
    \/ GetTasks(1, AliceHeader)
    \/ GetFind(1)
    \/ \E id \in IdParams : DeleteTask(1, AliceHeader, id)
    \/ DeleteFindOne(1)
    \/ DeleteDeleteOne(1)
    \/ \E id \in IdParams, title \in Titles, status \in Statuses \cup {""},
          date \in DateStrings : PutTask(1, AliceHeader, id, title, status, date)
    \/ PutFindOne(1)
    \/ PutSave(1)

SpecRoundTrip == InitLoggedIn /\ [][NextRoundTrip]_vars

(* C7: POST /tasks adds one task carrying the body's fields; GET /tasks   *)
(* returns the caller's stored tasks, so exactly that one after a POST    *)
(* into an empty store; PUT /tasks/:id leaves the task carrying the PUT   *)
(* body; after DELETE /tasks/:id answered 200 the task is gone.           *)
C7_RoundTrip ==
    [][/\ (Completes(1, "post_save") /\ last'.status = 201)
            => \E t \in tasks' :
                    /\ t \notin tasks /\ tasks' = tasks \cup {t}
                    /\ tasks = {} => tasks' = {t}
                    /\ Carries(TaskJSON(t), req[1].body)
                    /\ last'.payload = TaskJSON(t)
       /\ (Completes(1, "get_find") /\ last'.status = 200)
            => last'.payload = {TaskJSON(t) : t \in tasks}
       /\ (Completes(1, "put_save") /\ last'.status = 200)
            => \E t \in tasks' :
                    /\ OidString(t._id) = req[1].id
                    /\ Carries(TaskJSON(t), req[1].body)
                    /\ last'.payload = TaskJSON(t)
                    /\ \A u \in tasks' : u # t => u \in tasks
                    /\ TaskIds(tasks') = TaskIds(tasks)
       /\ (Completes(1, "delete_deleteOne") /\ last'.status = 200)
            => /\ CastObjectId(req[1].id) \notin TaskIds(tasks')
               /\ tasks' \subseteq tasks]_vars

(* The GET after a PUT: the one task, with the title, status and date of  *)
(* the PUT body.                                                          *)
C7_Witness ==
    /\ last.route = "get" /\ last.status = 200
    /\ last.payload = {[_id |-> OidString(1), title |-> "y", status |-> "done",
                        completionDate |-> "2024-01-02T00:00:00.000Z",
                        userId |-> Alice.id]}

====
